---- MODULE Spec2Model ----
(***************************************************************************)
(* A model of SniperProfiling (SniperUtil/SniperProfiling/src/             *)
(* SniperProfiling.cc): the profiling service that times events and        *)
(* algorithms through four incident handlers and prints a report when it   *)
(* is finalized.                                                           *)
(*                                                                         *)
(* SniperTimer, IIncidentHandler::regist/unregist, SniperJSON and          *)
(* SniperLog are SniperKernel code that this file only calls; they are     *)
(* modelled from their documented contract.                                *)
(***************************************************************************)
EXTENDS Integers, Sequences, FiniteSets, TLC

(* ------------------------------ bounds -------------------------------- *)

\* longest "identifier" string of the runs that try identifiers alone
MaxIdLen == 4
\* longest configured "algorithms" list
MaxAlgs == 2
\* number of start() and stop() calls that go through in one run
MaxNotif == 4
\* last value of the monotonic clock (ms)
MaxTime == 2
\* number of lines other threads write to the shared log
MaxOther == 1

(* --------------------------- configuration ---------------------------- *)

\* "identifier" strings of the task's JSON, as sequences of characters
IdA == <<"n", "/", "A">>
IdB == <<"n", "/", "B">>
IdNested == <<"n", "/", "n", "/">>
Identifiers == {IdA, IdB}

\* an entry of the list whose "identifier" is missing or is not a string
BadEntry == <<"malformed">>

RECURSIVE SeqsUpTo(_, _)
SeqsUpTo(S, n) ==
    IF n = 0 THEN {<<>>}
    ELSE LET shorter == SeqsUpTo(S, n - 1)
         IN  shorter \cup {Append(s, x) : s \in {q \in shorter : Len(q) = n - 1}, x \in S}

\* the task's JSON: whether it has an "algorithms" member, and the list
Configs ==
    {[present |-> TRUE, algorithms |-> l] : l \in SeqsUpTo(Identifiers \cup {BadEntry}, MaxAlgs)}
    \cup {[present |-> FALSE, algorithms |-> <<>>]}

\* every identifier of the form <namespace>/<name> over three characters
IdChars == {"n", "A", "/"}
SlashIdentifiers == {s \in SeqsUpTo(IdChars, MaxIdLen) : \E i \in 1..Len(s) : s[i] = "/"}
SlashConfigs == {[present |-> TRUE, algorithms |-> <<id>>] : id \in SlashIdentifiers}

\* objName() of the algorithms the host runs
NameA == <<"A">>
NameB == <<"B">>
AlgObjNames == {NameA, NameB}

\* an incident is an Incident_T<AlgBase*> carrying an algorithm, or a plain
\* Incident that carries none
AlgPayloads == [type : {"alg"}, name : AlgObjNames]
PlainIncident == [type |-> "plain", name |-> <<>>]
Payloads == AlgPayloads \cup {PlainIncident}

(* ------------------------------ strings ------------------------------- *)

\* std::string::find(c): 0-based position of the first c, or npos
HasChar(s, c) == \E i \in 1..Len(s) : s[i] = c
find(s, c) == CHOOSE i \in 0..(Len(s) - 1) : s[i + 1] = c /\ \A j \in 1..i : s[j] # c

\* KeyStart without the + 1
KeyStart_atSlash(idtf) == IF HasChar(idtf, "/") THEN find(idtf, "/") ELSE 0

\* idtf.find('/') + 1; npos + 1 wraps to 0 in size_t
KeyStart(idtf) == IF HasChar(idtf, "/") THEN find(idtf, "/") + 1 ELSE 0

\* std::string::substr(pos, n) for pos <= size()
substr(s, pos, n) ==
    LET last == IF pos + n < Len(s) THEN pos + n ELSE Len(s)
    IN  SubSeq(s, pos + 1, last)

\* line 143
AlgNameOf(idtf) == substr(idtf, KeyStart(idtf), Len(idtf))

(* ------------------------------- Timer -------------------------------- *)

NoInstant == -1

SniperTimer(name) ==
    [name |-> name, alloc |-> "live", running |-> FALSE, started_at |-> NoInstant,
     count |-> 0, sum |-> 0, sum_of_squares |-> 0]

\* start(): [err, t]
Timer_start(t, clock) ==
    IF t.running
    THEN [err |-> "AlreadyRunningError", t |-> t]
    ELSE [err |-> "none", t |-> [t EXCEPT !.running = TRUE, !.started_at = clock]]

\* stop(): [err, t]
Timer_stop(t, clock) ==
    IF ~t.running
    THEN [err |-> "NotRunningError", t |-> t]
    ELSE LET elapsed == clock - t.started_at
         IN  [err |-> "none",
              t |-> [t EXCEPT !.running = FALSE,
                              !.started_at = NoInstant,
                              !.count = @ + 1,
                              !.sum = @ + elapsed,
                              !.sum_of_squares = @ + elapsed * elapsed]]

\* the report's numbers are kept exact: a value is the fraction num/den
Rat(n, d) == [num |-> n, den |-> d]
RatEq(a, b) == a.num * b.den = b.num * a.den

Timer_number_of_measurements(t) == t.count
Timer_mean(t) == IF t.count = 0 THEN Rat(0, 1) ELSE Rat(t.sum, t.count)
\* rms() is the square root of this fraction
Timer_rms_squared(t) == IF t.count = 0 THEN Rat(0, 1) ELSE Rat(t.sum_of_squares, t.count)

(* ------------------------------- state -------------------------------- *)

VARIABLES
    config,        \* the task's JSON
    logLevel,      \* the service's log level
    pc,            \* where the service is in its life cycle
    heap,          \* every SniperTimer allocated with new, by address (index)
    m_evtTimer,    \* address of the event timer, 0 = unset
    m_algName,     \* std::vector<std::string>
    m_algTimer,    \* std::map<std::string, SniperTimer*>, 0 = nullptr
    hdl,           \* the four handler objects: "none", "live" or "deleted"
    registered,    \* the host's dispatch table: {<<incident name, handler>>}
    now,           \* the monotonic clock
    logLock,       \* SniperLog::Logger's lock: "free" or its holder
    log,           \* the lines written to SniperLog::LogStream
    rowIdx,        \* finalize's position in m_algName
    last,          \* the last call into the service and how it ended
    expect,        \* per incident key, the begin/end pairs the host has delivered
    inflight       \* the handler call a host thread has entered and not yet run

vars == <<config, logLevel, pc, heap, m_evtTimer, m_algName, m_algTimer, hdl, registered,
          now, logLock, log, rowIdx, last, expect, inflight>>

HandlerNames == {"BeginEvtHandler", "EndEvtHandler", "BeginAlgHandler", "EndAlgHandler"}

\* lines 148-162: each handler and the incident it is registered on
AllFour ==
    {<<"BeginEvent", "BeginEvtHandler">>, <<"EndEvent", "EndEvtHandler">>,
     <<"BeginAlg", "BeginAlgHandler">>, <<"EndAlg", "EndAlgHandler">>}

EvtKey == <<"evt">>
ExpectKeys == AlgObjNames \cup {EvtKey}

\* the service runs at the level that lets every line of the handlers through
LogLevels == {"Debug"}

NoCall == [op |-> "none", payload |-> PlainIncident, result |-> "none"]
NoFlight == [op |-> "none", h |-> "none", payload |-> PlainIncident]

\* the service as constructed, before initialize
Constructed ==
    /\ logLevel \in LogLevels
    /\ pc = "constructed"
    /\ heap = <<>>
    /\ m_evtTimer = 0
    /\ m_algName = <<>>
    /\ m_algTimer = <<>>
    /\ hdl = [h \in HandlerNames |-> "none"]
    /\ registered = {}
    /\ now = 0
    /\ logLock = "free"
    /\ log = <<>>
    /\ rowIdx = 0
    /\ last = NoCall
    /\ expect = [k \in ExpectKeys |-> [open |-> FALSE, t0 |-> 0, n |-> 0, s |-> 0, ss |-> 0]]
    /\ inflight = NoFlight

Init == config \in Configs /\ Constructed

(* --------------------- host dispatch and logging ---------------------- *)

\* IIncidentHandler::regist(name) / unregist(name) on the host's table
regist(tbl, h, name) == tbl \cup {<<name, h>>}
unregist(tbl, h, name) == tbl \ {<<name, h>>}

\* a leveled log sink (LogInfo, LogDebug) takes the logger's lock, writes one
\* line when the level lets it through, and releases the lock
LogLine(kind, from) == [kind |-> kind, name |-> from, stats |-> <<>>]
LogSink(lg, level, kind, from) ==
    IF kind = "debug" /\ level # "Debug" THEN lg ELSE Append(lg, LogLine(kind, from))

\* MapPut dropping the entries of the other keys
MapPut_onlyLast(m, k, v) == [x \in {k} |-> v]

\* m[k] = v on a std::map
MapPut(m, k, v) == [x \in (DOMAIN m) \cup {k} |-> IF x = k THEN v ELSE m[x]]

(* ----------------------------- initialize ----------------------------- *)

\* InitLoopBody with the name put at the front of m_algName
InitLoopBody_prepend(st, idtf) ==
    LET algName == AlgNameOf(idtf)
        hp == Append(st.heap, SniperTimer(algName))
    IN  [st EXCEPT !.names = <<algName>> \o st.names,
                   !.map = MapPut(st.map, algName, Len(hp)),
                   !.heap = hp]

\* lines 142-145: one pass of the loop over the "algorithms" list
InitLoopBody(st, idtf) ==
    LET algName == AlgNameOf(idtf)
        hp == Append(st.heap, SniperTimer(algName))
    IN  [st EXCEPT !.names = Append(st.names, algName),
                   !.map = MapPut(st.map, algName, Len(hp)),
                   !.heap = hp]

\* lines 140-146: the loop stops where (*it)["identifier"].get<std::string>()
\* throws
RECURSIVE InitLoop(_, _, _)
InitLoop(entries, i, st) ==
    IF i > Len(entries) THEN st
    ELSE IF entries[i] = BadEntry THEN [st EXCEPT !.ok = FALSE]
    ELSE InitLoop(entries, i + 1, InitLoopBody(st, entries[i]))

\* InitRegistrations with the EndAlg handler registered on "BeginAlg"
InitRegistrations_wrongName ==
    << <<"BeginEvtHandler", "BeginEvent">>, <<"EndEvtHandler", "EndEvent">>,
       <<"BeginAlgHandler", "BeginAlg">>, <<"EndAlgHandler", "BeginAlg">> >>

\* lines 148-162: the handlers created, each with the name it is registered on
InitRegistrations ==
    << <<"BeginEvtHandler", "BeginEvent">>, <<"EndEvtHandler", "EndEvent">>,
       <<"BeginAlgHandler", "BeginAlg">>, <<"EndAlgHandler", "EndAlg">> >>

RECURSIVE RegistAll(_, _, _)
RegistAll(tbl, calls, i) ==
    IF i > Len(calls) THEN tbl
    ELSE RegistAll(regist(tbl, calls[i][1], calls[i][2]), calls, i + 1)

\* lines 130-171
initialize ==
    /\ pc = "constructed"
    /\ IF ~config.present
       THEN \* line 134 throws: nothing has been created yet
            /\ pc' = "init_failed"
            /\ last' = [op |-> "initialize", payload |-> PlainIncident,
                        result |-> "ConfigurationError"]
            /\ UNCHANGED <<heap, m_evtTimer, m_algName, m_algTimer, hdl, registered, log>>
       ELSE LET evt == <<SniperTimer(<<"evtTimer">>)>>
                st == InitLoop(config.algorithms, 1,
                               [names |-> <<>>, map |-> <<>>, heap |-> evt, ok |-> TRUE])
            IN  /\ m_evtTimer' = 1
                /\ heap' = st.heap
                /\ m_algName' = st.names
                /\ m_algTimer' = st.map
                /\ IF st.ok
                   THEN /\ hdl' = [h \in HandlerNames |->
                                     IF \E i \in 1..Len(InitRegistrations) :
                                           InitRegistrations[i][1] = h
                                     THEN "live" ELSE hdl[h]]
                        /\ registered' = RegistAll(registered, InitRegistrations, 1)
                        /\ log' = LogSink(log, logLevel, "info", "initialize")
                        /\ pc' = "active"
                        /\ last' = [op |-> "initialize", payload |-> PlainIncident,
                                    result |-> "true"]
                   ELSE /\ pc' = "init_failed"
                        /\ last' = [op |-> "initialize", payload |-> PlainIncident,
                                    result |-> "ConfigurationError"]
                        /\ UNCHANGED <<hdl, registered, log>>
    /\ UNCHANGED <<inflight, config, logLevel, now, logLock, rowIdx, expect>>

(* ------------------------------ handlers ------------------------------ *)

Outcome(tm, hp, result, ub, logged) ==
    [map |-> tm, heap |-> hp, result |-> result, ub |-> ub, logged |-> logged]

\* BeginEvtHandler::handle with the timer's error swallowed
BeginEvtHandler_handle_swallows(hp, evtTimer, clock) ==
    LET r == Timer_start(hp[evtTimer], clock)
    IN  [heap |-> [hp EXCEPT ![evtTimer] = r.t], result |-> "true", logged |-> FALSE]

\* lines 48-53
BeginEvtHandler_handle(hp, evtTimer, clock) ==
    LET r == Timer_start(hp[evtTimer], clock)
    IN  IF r.err # "none" THEN [heap |-> hp, result |-> r.err, logged |-> FALSE]
        ELSE [heap |-> [hp EXCEPT ![evtTimer] = r.t], result |-> "true", logged |-> FALSE]

\* EndEvtHandler::handle calling start() where it should call stop()
EndEvtHandler_handle_starts(hp, evtTimer, clock) ==
    LET r == Timer_start(hp[evtTimer], clock)
    IN  IF r.err # "none" THEN [heap |-> hp, result |-> r.err, logged |-> FALSE]
        ELSE [heap |-> [hp EXCEPT ![evtTimer] = r.t], result |-> "true", logged |-> TRUE]

\* lines 68-75
EndEvtHandler_handle(hp, evtTimer, clock) ==
    LET r == Timer_stop(hp[evtTimer], clock)
    IN  IF r.err # "none" THEN [heap |-> hp, result |-> r.err, logged |-> FALSE]
        ELSE [heap |-> [hp EXCEPT ![evtTimer] = r.t], result |-> "true", logged |-> TRUE]

\* h_timerMap[key]: std::map::operator[] adds the key with a null pointer when
\* it is absent
MapIndex(tm, key) == IF key \in DOMAIN tm THEN tm ELSE MapPut(tm, key, 0)

\* lines 96-100 once the key is known. Calling start() through a null pointer
\* is undefined: the process dies, or goes on with no timer touched.
BeginAlgWithKey(tm, hp, key, clock, ub) ==
    LET tm2 == MapIndex(tm, key)
    IN  IF tm2[key] = 0
        THEN {Outcome(tm2, hp, "crash", TRUE, FALSE), Outcome(tm2, hp, "true", TRUE, FALSE)}
        ELSE LET r == Timer_start(hp[tm2[key]], clock)
             IN  IF r.err # "none" THEN {Outcome(tm2, hp, r.err, ub, FALSE)}
                 ELSE {Outcome(tm2, [hp EXCEPT ![tm2[key]] = r.t], "true", ub, FALSE)}

\* lines 91-101. When the incident is not an Incident_T<AlgBase*> the
\* dynamic_cast gives a null pointer and iPtr->payload() is undefined: the
\* process dies, or goes on with whatever name the read yields.
BeginAlgHandler_handle(tm, hp, payload, clock) ==
    IF payload.type = "alg"
    THEN BeginAlgWithKey(tm, hp, payload.name, clock, FALSE)
    ELSE {Outcome(tm, hp, "crash", TRUE, FALSE)}
         \cup UNION {BeginAlgWithKey(tm, hp, k, clock, TRUE) : k \in AlgObjNames}

\* EndAlgWithKey stopping every running timer of the map
EndAlgWithKey_stopsAll(tm, hp, key, clock, ub) ==
    LET tm2 == MapIndex(tm, key)
    IN  IF tm2[key] = 0
        THEN {Outcome(tm2, hp, "crash", TRUE, FALSE), Outcome(tm2, hp, "true", TRUE, FALSE)}
        ELSE LET r == Timer_stop(hp[tm2[key]], clock)
                 all == [p \in DOMAIN hp |->
                            IF p \in {tm2[k] : k \in DOMAIN tm2} /\ hp[p].running
                            THEN Timer_stop(hp[p], clock).t ELSE hp[p]]
             IN  IF r.err # "none" THEN {Outcome(tm2, hp, r.err, ub, FALSE)}
                 ELSE {Outcome(tm2, all, "true", ub, TRUE)}

\* lines 121-127 once the key is known
EndAlgWithKey(tm, hp, key, clock, ub) ==
    LET tm2 == MapIndex(tm, key)
    IN  IF tm2[key] = 0
        THEN {Outcome(tm2, hp, "crash", TRUE, FALSE), Outcome(tm2, hp, "true", TRUE, FALSE)}
        ELSE LET r == Timer_stop(hp[tm2[key]], clock)
             IN  IF r.err # "none" THEN {Outcome(tm2, hp, r.err, ub, FALSE)}
                 ELSE {Outcome(tm2, [hp EXCEPT ![tm2[key]] = r.t], "true", ub, TRUE)}

\* lines 116-128
EndAlgHandler_handle(tm, hp, payload, clock) ==
    IF payload.type = "alg"
    THEN EndAlgWithKey(tm, hp, payload.name, clock, FALSE)
    ELSE {Outcome(tm, hp, "crash", TRUE, FALSE)}
         \cup UNION {EndAlgWithKey(tm, hp, k, clock, TRUE) : k \in AlgObjNames}

(* ------------------- the host firing the incidents -------------------- *)

\* once undefined behaviour has been executed the process is dead ("crashed")
\* or in a state the program's text says nothing about ("undefined")
AfterHandler(o) ==
    IF o.result = "crash" THEN "crashed" ELSE IF o.ub THEN "undefined" ELSE pc

\* what the host has delivered for one key: the begin/end pairs completed so
\* far and the begin still open
ExpectBegin(e, clock) == IF e.open THEN e ELSE [e EXCEPT !.open = TRUE, !.t0 = clock]
ExpectEnd(e, clock) ==
    IF ~e.open THEN e
    ELSE [e EXCEPT !.open = FALSE, !.t0 = 0, !.n = @ + 1, !.s = @ + (clock - e.t0),
                   !.ss = @ + (clock - e.t0) * (clock - e.t0)]

\* the start() and stop() calls that went through so far
RECURSIVE Delivered(_)
Delivered(hp) ==
    IF hp = <<>> THEN 0
    ELSE 2 * Head(hp).count + (IF Head(hp).running THEN 1 ELSE 0) + Delivered(Tail(hp))

CanFire(name, h) == /\ pc \notin {"crashed", "undefined"}
                    /\ <<name, h>> \in registered
                    /\ Delivered(heap) < MaxNotif

\* the host calls BeginEvtHandler::handle
BeginEventCall ==
    /\ LET o == BeginEvtHandler_handle(heap, m_evtTimer, now)
       IN  /\ heap' = o.heap
           /\ last' = [op |-> "BeginEvent", payload |-> PlainIncident, result |-> o.result]
    /\ expect' = [expect EXCEPT ![EvtKey] = ExpectBegin(@, now)]
    /\ UNCHANGED <<config, logLevel, pc, m_evtTimer, m_algName, m_algTimer, hdl,
                   registered, now, logLock, log, rowIdx>>

\* the host calls EndEvtHandler::handle
EndEventCall ==
    /\ LET o == EndEvtHandler_handle(heap, m_evtTimer, now)
       IN  /\ heap' = o.heap
           /\ last' = [op |-> "EndEvent", payload |-> PlainIncident, result |-> o.result]
           /\ log' = IF o.logged THEN LogSink(log, logLevel, "debug", "EndEvtHandler")
                     ELSE log
    /\ expect' = [expect EXCEPT ![EvtKey] = ExpectEnd(@, now)]
    /\ UNCHANGED <<config, logLevel, pc, m_evtTimer, m_algName, m_algTimer, hdl,
                   registered, now, logLock, rowIdx>>

\* the host calls BeginAlgHandler::handle with an incident
BeginAlgCall(payload) ==
    /\   /\ \E o \in BeginAlgHandler_handle(m_algTimer, heap, payload, now) :
              /\ heap' = o.heap
              /\ m_algTimer' = o.map
              /\ last' = [op |-> "BeginAlg", payload |-> payload, result |-> o.result]
              /\ pc' = AfterHandler(o)
         /\ expect' = IF payload.type = "alg"
                      THEN [expect EXCEPT ![payload.name] = ExpectBegin(@, now)]
                      ELSE expect
    /\ UNCHANGED <<config, logLevel, m_evtTimer, m_algName, hdl, registered, now,
                   logLock, log, rowIdx>>

\* the host calls EndAlgHandler::handle with an incident
EndAlgCall(payload) ==
    /\   /\ \E o \in EndAlgHandler_handle(m_algTimer, heap, payload, now) :
              /\ heap' = o.heap
              /\ m_algTimer' = o.map
              /\ last' = [op |-> "EndAlg", payload |-> payload, result |-> o.result]
              /\ pc' = AfterHandler(o)
              /\ log' = IF o.logged THEN LogSink(log, logLevel, "debug", "EndAlgHandler")
                        ELSE log
         /\ expect' = IF payload.type = "alg"
                      THEN [expect EXCEPT ![payload.name] = ExpectEnd(@, now)]
                      ELSE expect
    /\ UNCHANGED <<config, logLevel, m_evtTimer, m_algName, hdl, registered, now,
                   logLock, rowIdx>>

\* an incident is fired and its handler runs at once
FireBeginEvent ==
    /\ CanFire("BeginEvent", "BeginEvtHandler")
    /\ BeginEventCall
    /\ UNCHANGED inflight

FireEndEvent ==
    /\ CanFire("EndEvent", "EndEvtHandler")
    /\ EndEventCall
    /\ UNCHANGED inflight

FireBeginAlg ==
    /\ CanFire("BeginAlg", "BeginAlgHandler")
    /\ \E payload \in Payloads : BeginAlgCall(payload)
    /\ UNCHANGED inflight

FireEndAlg ==
    /\ CanFire("EndAlg", "EndAlgHandler")
    /\ \E payload \in Payloads : EndAlgCall(payload)
    /\ UNCHANGED inflight

\* the monotonic clock advances. Timers use differences of instants only, so
\* time that passes while no timer runs is left out.
Tick ==
    /\ pc = "active"
    /\ \E p \in 1..Len(heap) : heap[p].running
    /\ now < MaxTime
    /\ now' = now + 1
    /\ UNCHANGED <<inflight, config, logLevel, pc, heap, m_evtTimer, m_algName, m_algTimer, hdl,
                   registered, logLock, log, rowIdx, last, expect>>

(* ------------------------------ finalize ------------------------------ *)

\* lines 176-179: the names the handlers are unregistered from
FinalizeUnregistrations ==
    << <<"BeginEvtHandler", "BeginEvent">>, <<"EndEvtHandler", "EndEvent">>,
       <<"BeginAlgHandler", "BeginAlg">>, <<"EndAlgHandler", "EndAlg">> >>

RECURSIVE UnregistAll(_, _, _)
UnregistAll(tbl, calls, i) ==
    IF i > Len(calls) THEN tbl
    ELSE UnregistAll(unregist(tbl, calls[i][1], calls[i][2]), calls, i + 1)

\* lines 176-179
finalize_unregist ==
    /\ pc = "active"
    /\ registered' = UnregistAll(registered, FinalizeUnregistrations, 1)
    /\ pc' = "fin_delete_handlers"
    /\ last' = [op |-> "finalize", payload |-> PlainIncident, result |-> "running"]
    /\ UNCHANGED <<inflight, config, logLevel, heap, m_evtTimer, m_algName, m_algTimer, hdl, now,
                   logLock, log, rowIdx, expect>>

\* lines 181-184
finalize_delete_handlers ==
    /\ pc = "fin_delete_handlers"
    /\ hdl' = [h \in HandlerNames |-> "deleted"]
    /\ pc' = "fin_lock"
    /\ UNCHANGED <<inflight, config, logLevel, heap, m_evtTimer, m_algName, m_algTimer, registered,
                   now, logLock, log, rowIdx, last, expect>>

\* finalize going on without taking the lock
finalize_lock_skipped ==
    /\ pc = "fin_lock"
    /\ pc' = "fin_banner"
    /\ UNCHANGED <<inflight, config, logLevel, heap, m_evtTimer, m_algName, m_algTimer, hdl,
                   registered, now, logLock, log, rowIdx, last, expect>>

\* line 187: SniperLog::Logger::lock() waits until the lock is free
finalize_lock ==
    /\ pc = "fin_lock"
    /\ logLock = "free"
    /\ logLock' = "finalize"
    /\ pc' = "fin_banner"
    /\ UNCHANGED <<inflight, config, logLevel, heap, m_evtTimer, m_algName, m_algTimer, hdl,
                   registered, now, log, rowIdx, last, expect>>

\* a write to *SniperLog::LogStream
StreamWrite(lg, line) == Append(lg, line)

\* TimerStats counting the measurement in progress
TimerStats_countsRunning(t) ==
    LET n == Timer_number_of_measurements(t) + (IF t.running THEN 1 ELSE 0)
        mean == Timer_mean(t)
    IN  <<n, Rat(n * mean.num, mean.den), mean, Timer_rms_squared(t)>>

\* count, count * mean, mean and rms as lines 206-209 and 214-217 print them
TimerStats(t) ==
    LET n == Timer_number_of_measurements(t)
        mean == Timer_mean(t)
    IN  <<n, Rat(n * mean.num, mean.den), mean, Timer_rms_squared(t)>>

\* the banner written through a log sink, which takes the logger's lock
finalize_banner_viaSink ==
    /\ pc = "fin_banner"
    /\ logLock = "free"
    /\ log' = StreamWrite(log, [kind |-> "banner", name |-> <<>>, stats |-> <<>>])
    /\ pc' = "fin_header"
    /\ UNCHANGED <<inflight, config, logLevel, heap, m_evtTimer, m_algName, m_algTimer, hdl,
                   registered, now, logLock, rowIdx, last, expect>>

\* lines 190-200: the banner, then the header
finalize_banner ==
    /\ pc = "fin_banner"
    /\ log' = StreamWrite(log, [kind |-> "banner", name |-> <<>>, stats |-> <<>>])
    /\ pc' = "fin_header"
    /\ UNCHANGED <<inflight, config, logLevel, heap, m_evtTimer, m_algName, m_algTimer, hdl,
                   registered, now, logLock, rowIdx, last, expect>>

finalize_header ==
    /\ pc = "fin_header"
    /\ log' = StreamWrite(log, [kind |-> "header", name |-> <<>>, stats |-> <<>>])
    /\ rowIdx' = 0
    /\ pc' = "fin_rows"
    /\ UNCHANGED <<inflight, config, logLevel, heap, m_evtTimer, m_algName, m_algTimer, hdl,
                   registered, now, logLock, last, expect>>

\* lines 205-210: the row of the algorithm name `it`
ReportRow(tm, hp, it) ==
    [kind |-> "row", name |-> it, stats |-> TimerStats(hp[tm[it]])]

\* lines 203-211: one pass of the loop over m_algName
finalize_row ==
    /\ pc = "fin_rows"
    /\ rowIdx < Len(m_algName)
    /\ LET it == m_algName[rowIdx + 1]
           tm == MapIndex(m_algTimer, it)
       IN  /\ m_algTimer' = tm
           /\ IF tm[it] = 0
              THEN \* a null SniperTimer* is dereferenced
                   /\ pc' \in {"crashed", "undefined"}
                   /\ UNCHANGED <<log, rowIdx>>
              ELSE /\ log' = StreamWrite(log, ReportRow(tm, heap, it))
                   /\ rowIdx' = rowIdx + 1
                   /\ pc' = pc
    /\ UNCHANGED <<inflight, config, logLevel, heap, m_evtTimer, m_algName, hdl, registered, now,
                   logLock, last, expect>>

\* getParent()->objName()
ParentName == <<"task">>

\* lines 213-218
finalize_summary ==
    /\ pc = "fin_rows"
    /\ rowIdx = Len(m_algName)
    /\ log' = StreamWrite(log, [kind |-> "summary", name |-> ParentName,
                                stats |-> TimerStats(heap[m_evtTimer])])
    /\ pc' = "fin_closing"
    /\ UNCHANGED <<inflight, config, logLevel, heap, m_evtTimer, m_algName, m_algTimer, hdl,
                   registered, now, logLock, rowIdx, last, expect>>

\* line 219
finalize_closing ==
    /\ pc = "fin_closing"
    /\ log' = StreamWrite(log, [kind |-> "closing", name |-> <<>>, stats |-> <<>>])
    /\ pc' = "fin_unlock"
    /\ UNCHANGED <<inflight, config, logLevel, heap, m_evtTimer, m_algName, m_algTimer, hdl,
                   registered, now, logLock, rowIdx, last, expect>>

\* lines 190-219 when a write to the stream throws (the stream was given an
\* exception mask, or an allocation fails): finalize is left by the exception
finalize_throw ==
    /\ pc \in {"fin_banner", "fin_header", "fin_rows", "fin_closing"}
    /\ pc' = "finalize_failed"
    /\ last' = [op |-> "finalize", payload |-> PlainIncident, result |-> "StreamError"]
    /\ UNCHANGED <<inflight, config, logLevel, heap, m_evtTimer, m_algName, m_algTimer, hdl,
                   registered, now, logLock, log, rowIdx, expect>>

\* finalize going on with the lock still held
finalize_unlock_late ==
    /\ pc = "fin_unlock"
    /\ pc' = "fin_delete_timers"
    /\ UNCHANGED <<inflight, config, logLevel, heap, m_evtTimer, m_algName, m_algTimer, hdl,
                   registered, now, logLock, log, rowIdx, last, expect>>

\* line 222
finalize_unlock ==
    /\ pc = "fin_unlock"
    /\ logLock' = "free"
    /\ pc' = "fin_delete_timers"
    /\ UNCHANGED <<inflight, config, logLevel, heap, m_evtTimer, m_algName, m_algTimer, hdl,
                   registered, now, log, rowIdx, last, expect>>

\* delete p: nothing for a null pointer; a second delete of the same object
\* is recorded
Delete(hp, p) ==
    IF p = 0 THEN hp
    ELSE [hp EXCEPT ![p].alloc = IF @ = "live" THEN "deleted" ELSE "deleted_twice"]

\* lines 225-226: delete it.second for every entry of the map
RECURSIVE DeleteAll(_, _, _)
DeleteAll(hp, tm, keys) ==
    IF keys = {} THEN hp
    ELSE LET k == CHOOSE q \in keys : TRUE
         IN  DeleteAll(Delete(hp, tm[k]), tm, keys \ {k})

\* lines 224-226
finalize_delete_timers ==
    /\ pc = "fin_delete_timers"
    /\ heap' = DeleteAll(Delete(heap, m_evtTimer), m_algTimer, DOMAIN m_algTimer)
    /\ pc' = "fin_return"
    /\ UNCHANGED <<inflight, config, logLevel, m_evtTimer, m_algName, m_algTimer, hdl, registered,
                   now, logLock, log, rowIdx, last, expect>>

\* lines 228-229
finalize_return ==
    /\ pc = "fin_return"
    /\ logLock = "free"
    /\ log' = LogSink(log, logLevel, "info", "finalize")
    /\ pc' = "finalized"
    /\ last' = [op |-> "finalize", payload |-> PlainIncident, result |-> "true"]
    /\ UNCHANGED <<inflight, config, logLevel, heap, m_evtTimer, m_algName, m_algTimer, hdl,
                   registered, now, logLock, rowIdx, expect>>

(* --------------------------- other threads ---------------------------- *)

OtherLines(lg) == Cardinality({i \in 1..Len(lg) : lg[i].kind = "other"})

\* another thread enters a log sink and takes the logger's lock while the
\* service is at one of `pcs`
OtherLockAt(pcs) ==
    /\ pc \in pcs
    /\ logLock = "free"
    /\ OtherLines(log) < MaxOther
    /\ logLock' = "thread"
    /\ UNCHANGED <<inflight, config, logLevel, pc, heap, m_evtTimer, m_algName, m_algTimer, hdl,
                   registered, now, log, rowIdx, last, expect>>

\* from the banner on. Lines written before finalize has the lock precede the
\* whole report, whenever they are written, and are left out.
OtherLock ==
    OtherLockAt({"fin_banner", "fin_header", "fin_rows", "fin_closing", "fin_unlock",
                 "fin_delete_timers", "fin_return", "finalized", "finalize_failed"})

\* while finalize is on its way to Logger::lock()
OtherLockEarly == OtherLockAt({"fin_delete_handlers", "fin_lock"})

\* the thread writes its line and releases the lock
OtherLog ==
    /\ logLock = "thread"
    /\ log' = Append(log, LogLine("other", "thread"))
    /\ logLock' = "free"
    /\ UNCHANGED <<inflight, config, logLevel, pc, heap, m_evtTimer, m_algName, m_algTimer, hdl,
                   registered, now, rowIdx, last, expect>>

Next ==
    \/ initialize
    \/ finalize_unregist
    \/ finalize_delete_handlers
    \/ finalize_lock
    \/ finalize_banner
    \/ finalize_header
    \/ finalize_row
    \/ finalize_summary
    \/ finalize_closing
    \/ finalize_throw
    \/ finalize_unlock
    \/ finalize_delete_timers
    \/ finalize_return
    \/ OtherLock
    \/ OtherLog
    \/ FireBeginEvent
    \/ FireEndEvent
    \/ FireBeginAlg
    \/ FireEndAlg
    \/ Tick

Spec == Init /\ [][Next]_vars

(* ------------- a session whose stream never fails, run fairly --------- *)

\* the steps of finalize that wait for nothing
FinalizeRuns ==
    \/ finalize_unregist
    \/ finalize_delete_handlers
    \/ finalize_banner
    \/ finalize_header
    \/ finalize_row
    \/ finalize_summary
    \/ finalize_closing
    \/ finalize_unlock
    \/ finalize_delete_timers

\* the clock stands still here: no step of finalize reads an instant, and
\* whether it terminates does not depend on the elapsed times measured
NextLive ==
    \/ initialize
    \/ FinalizeRuns
    \/ finalize_lock
    \/ finalize_return
    \/ OtherLockEarly
    \/ OtherLock
    \/ OtherLog
    \/ FireBeginEvent
    \/ FireEndEvent
    \/ FireBeginAlg
    \/ FireEndAlg

\* the thread in finalize keeps running once finalize has started; a thread
\* that holds the logger's lock gives it back; the lock is granted fairly: a
\* thread that waits for it while it becomes free again and again gets it
Fairness ==
    /\ WF_vars(pc # "active" /\ FinalizeRuns)
    /\ WF_vars(OtherLog)
    /\ SF_vars(finalize_lock)
    /\ SF_vars(finalize_return)

SpecLive == Init /\ [][NextLive]_vars /\ Fairness

(* ------------- incidents delivered on other host threads ------------- *)

\* a host thread fires an incident: it finds the handler registered on the
\* incident's name and calls its handle(); the call runs on that thread while
\* finalize goes on in its own
Dispatch ==
    /\ inflight = NoFlight
    /\ \E op \in {"BeginEvent", "EndEvent", "BeginAlg", "EndAlg"} :
       \E h \in HandlerNames :
       \E payload \in Payloads :
          /\ <<op, h>> \in AllFour
          /\ CanFire(op, h)
          /\ op \in {"BeginEvent", "EndEvent"} => payload = PlainIncident
          /\ inflight' = [op |-> op, h |-> h, payload |-> payload]
    /\ UNCHANGED <<config, logLevel, pc, heap, m_evtTimer, m_algName, m_algTimer, hdl,
                   registered, now, logLock, log, rowIdx, last, expect>>

\* the timer the body of a call reaches through the handler's members
TimerOfCall(f) ==
    IF f.op \in {"BeginEvent", "EndEvent"} THEN m_evtTimer
    ELSE IF f.payload.type = "alg" /\ f.payload.name \in DOMAIN m_algTimer
         THEN m_algTimer[f.payload.name]
         ELSE 0

\* the body of the call in progress runs. Reading h_evtTimer or h_timerMap of
\* a deleted handler, or calling a deleted timer, is a use after delete: the
\* process dies, or goes on in a state the program's text says nothing about.
Run ==
    /\ inflight # NoFlight
    /\ pc \notin {"crashed", "undefined"}
    /\ inflight' = NoFlight
    /\ IF \/ hdl[inflight.h] = "deleted"
          \/ TimerOfCall(inflight) # 0 /\ heap[TimerOfCall(inflight)].alloc # "live"
       THEN /\ last' = [op |-> inflight.op, payload |-> inflight.payload,
                        result |-> "UseAfterDelete"]
            /\ pc' \in {"crashed", "undefined"}
            /\ UNCHANGED <<config, logLevel, heap, m_evtTimer, m_algName, m_algTimer, hdl,
                           registered, now, logLock, log, rowIdx, expect>>
       ELSE CASE inflight.op = "BeginEvent" -> BeginEventCall
              [] inflight.op = "EndEvent" -> EndEventCall
              [] inflight.op = "BeginAlg" -> BeginAlgCall(inflight.payload)
              [] inflight.op = "EndAlg" -> EndAlgCall(inflight.payload)

NextMT ==
    \/ initialize
    \/ Dispatch
    \/ Run
    \/ Tick
    \/ finalize_unregist
    \/ finalize_delete_handlers
    \/ finalize_lock
    \/ finalize_banner
    \/ finalize_header
    \/ finalize_row
    \/ finalize_summary
    \/ finalize_closing
    \/ finalize_unlock
    \/ finalize_delete_timers
    \/ finalize_return

SpecMT == Init /\ [][NextMT]_vars

\* one service per identifier: initialize, then finalize
InitKey == config \in SlashConfigs /\ Constructed

NextKey ==
    \/ initialize
    \/ finalize_unregist
    \/ finalize_delete_handlers
    \/ finalize_lock
    \/ finalize_banner
    \/ finalize_header
    \/ finalize_row
    \/ finalize_summary
    \/ finalize_closing
    \/ finalize_unlock
    \/ finalize_delete_timers
    \/ finalize_return

SpecKey == InitKey /\ [][NextKey]_vars

(* ------------------------------- claims ------------------------------- *)

Range(f) == {f[x] : x \in DOMAIN f}

\* the process is running the program's text
Defined == pc \notin {"crashed", "undefined"}

\* C1: after initialize returns true the four handlers are registered, each on
\* its own incident name; before it, after it failed and after finalize none
\* is; in every state the host's table holds all four or nothing.
C1_HandlersFollowSession ==
    /\ pc = "active" => registered = AllFour
    /\ pc \in {"constructed", "init_failed", "finalized"} => registered = {}
    /\ registered \in {AllFour, {}}

C1_Witness == pc = "finalized" /\ expect[EvtKey].n > 0 /\ registered = {}

\* C2: a BeginAlg or EndAlg incident for an algorithm whose name is not in the
\* configured list ends in UnknownAlgorithmError.
C2_UnknownAlgorithmIsError ==
    (/\ last.op \in {"BeginAlg", "EndAlg"}
     /\ last.payload.type = "alg"
     /\ last.payload.name \notin Range(m_algName))
    => last.result = "UnknownAlgorithmError"

ExpectOf(k) ==
    IF k \in ExpectKeys THEN expect[k]
    ELSE [open |-> FALSE, t0 |-> 0, n |-> 0, s |-> 0, ss |-> 0]

\* the timer holds count = N, mean = sum(e_i)/N and rms^2 = sum(e_i^2)/N of
\* the pairs delivered
TimerMatches(t, e) ==
    /\ Timer_number_of_measurements(t) = e.n
    /\ e.n > 0 => /\ RatEq(Timer_mean(t), Rat(e.s, e.n))
                  /\ RatEq(Timer_rms_squared(t), Rat(e.ss, e.n))

\* a report line shows count, count * mean, mean and rms of the pairs delivered
LineMatches(l, e) ==
    /\ l.stats[1] = e.n
    /\ e.n > 0 => /\ RatEq(l.stats[2], Rat(e.s, 1))
                  /\ RatEq(l.stats[3], Rat(e.s, e.n))
                  /\ RatEq(l.stats[4], Rat(e.ss, e.n))

\* C3: for the event timer and every algorithm timer, after N matched begin/end
\* pairs with elapsed values e_1..e_N the count is N, the mean is sum(e_i)/N
\* and the rms is sqrt(sum(e_i^2)/N), and the report shows these values.
C3_StatisticsOfMatchedPairs ==
    (Defined /\ pc \notin {"constructed", "init_failed"}) =>
        /\ TimerMatches(heap[m_evtTimer], expect[EvtKey])
        /\ \A k \in DOMAIN m_algTimer :
              m_algTimer[k] # 0 => TimerMatches(heap[m_algTimer[k]], ExpectOf(k))
        /\ \A i \in 1..Len(log) :
              /\ log[i].kind = "row" => LineMatches(log[i], ExpectOf(log[i].name))
              /\ log[i].kind = "summary" => LineMatches(log[i], expect[EvtKey])

C3_Witness ==
    /\ pc = "finalized"
    /\ expect[EvtKey].n = 2
    /\ expect[EvtKey].ss = 4
    /\ \E i \in 1..Len(log) : log[i].kind = "summary" /\ log[i].stats[1] = 2

\* C4: an end incident for a timer that is not running ends in NotRunningError
\* and a begin incident for a timer that is running ends in
\* AlreadyRunningError; the step leaves every timer as it was.
C4_Step ==
    LET fired == last' # last \/ heap' # heap
        evt == heap[m_evtTimer]
        known == /\ last'.payload.type = "alg"
                 /\ last'.payload.name \in DOMAIN m_algTimer
                 /\ m_algTimer[last'.payload.name] # 0
        alg == heap[m_algTimer[last'.payload.name]]
    IN  /\ (fired /\ last'.op = "BeginEvent" /\ evt.running)
              => (last'.result = "AlreadyRunningError" /\ heap' = heap)
        /\ (fired /\ last'.op = "EndEvent" /\ ~evt.running)
              => (last'.result = "NotRunningError" /\ heap' = heap)
        /\ (fired /\ last'.op = "BeginAlg" /\ known /\ alg.running)
              => (last'.result = "AlreadyRunningError" /\ heap' = heap)
        /\ (fired /\ last'.op = "EndAlg" /\ known /\ ~alg.running)
              => (last'.result = "NotRunningError" /\ heap' = heap)

C4_MisuseIsError == [][C4_Step]_vars

C4_Witness ==
    /\ last.op = "BeginEvent"
    /\ last.result = "AlreadyRunningError"
    /\ heap[m_evtTimer].running
    /\ heap[m_evtTimer].started_at < now

ReportLines(lg) == SelectSeq(lg, LAMBDA l : l.kind \in {"row", "summary"})

RowsDone == pc \in {"fin_closing", "fin_unlock", "fin_delete_timers", "fin_return",
                    "finalized"}

\* C5: the report has one row per configured identifier, in the order of the
\* configured list, and then one summary row, whatever incidents arrived.
C5_ReportInConfiguredOrder ==
    LET r == ReportLines(log)
        ids == config.algorithms
    IN  /\ Len(r) <= Len(ids) + 1
        /\ \A i \in 1..Len(r) :
              IF i <= Len(ids)
              THEN r[i].kind = "row" /\ r[i].name = AlgNameOf(ids[i])
              ELSE r[i].kind = "summary"
        /\ RowsDone => Len(r) = Len(ids) + 1

C5_Witness ==
    /\ pc = "finalized"
    /\ config.algorithms = <<IdA, IdB>>
    /\ expect[NameB].n = 1
    /\ expect[NameA].n = 0
    /\ expect[NameA].open

LiveTimers == {p \in 1..Len(heap) : heap[p].alloc = "live"}

\* C6: when initialize fails no handler is registered and no event timer,
\* algorithm timer or algorithm name is kept.
C6_FailedActivateKeepsNothing ==
    pc = "init_failed" =>
        /\ registered = {}
        /\ m_evtTimer = 0
        /\ m_algName = <<>>
        /\ DOMAIN m_algTimer = {}
        /\ LiveTimers = {}

\* C7: when finalize has ended, by returning or by an error, it does not hold
\* the logger's lock.
C7_LockReleasedOnEveryExit ==
    pc \in {"finalized", "finalize_failed"} => logLock # "finalize"

ReportKinds == {"banner", "header", "row", "summary", "closing"}

\* C8: no line of another writer lies between the report's opening banner and
\* its closing banner.
C8_ReportIsOneBlock ==
    \A i \in 1..Len(log) : \A j \in (i + 1)..Len(log) :
        (log[i].kind = "banner" /\ log[j].kind \notin ReportKinds)
        => \E m \in (i + 1)..(j - 1) : log[m].kind = "closing"

C8_Witness ==
    /\ pc = "fin_return"
    /\ \E i \in 1..Len(log) : \E j \in (i + 1)..Len(log) :
          log[i].kind = "closing" /\ log[j].kind = "other"

\* C9: a BeginAlg or EndAlg incident whose payload is not an algorithm ends in
\* PayloadTypeMismatchError.
C9_PayloadMismatchIsError ==
    (last.op \in {"BeginAlg", "EndAlg"} /\ last.payload.type # "alg")
    => last.result = "PayloadTypeMismatchError"

Occurrences(seq, x) == Cardinality({i \in 1..Len(seq) : seq[i] = x})

\* C10: a key that occurs more than once in the configured list gets one
\* timer, the one created for its first occurrence, and one entry for the
\* report.
C10_DuplicateKeyInsertedOnce ==
    pc = "active" =>
        \A i \in 1..Len(config.algorithms) :
            LET k == AlgNameOf(config.algorithms[i])
                made == {p \in 1..Len(heap) : heap[p].name = k}
            IN  /\ Cardinality(made) = 1
                /\ Occurrences(m_algName, k) = 1
                /\ \A p \in made : m_algTimer[k] <= p

Slashes(s) == Cardinality({i \in 1..Len(s) : s[i] = "/"})

AfterLastSlash(id) ==
    LET p == CHOOSE q \in 1..Len(id) : id[q] = "/" /\ \A j \in (q + 1)..Len(id) : id[j] # "/"
    IN  SubSeq(id, p + 1, Len(id))

AfterFirstSlash(id) ==
    LET p == CHOOSE q \in 1..Len(id) : id[q] = "/" /\ \A j \in 1..(q - 1) : id[j] # "/"
    IN  SubSeq(id, p + 1, Len(id))

\* the key of the one configured identifier is k: the recorded name, the map's
\* key, the timer's name and the name of every report row
KeyIs(k) ==
    /\ m_algName = <<k>>
    /\ DOMAIN m_algTimer = {k}
    /\ heap[m_algTimer[k]].name = k
    /\ \A i \in 1..Len(log) : log[i].kind = "row" => log[i].name = k

\* C11 as stated: the key of an identifier is what follows its last '/', so
\* the key holds no '/'.
C11_KeyAfterLastSlash ==
    (pc # "constructed" /\ Len(config.algorithms) = 1 /\ config.algorithms[1] # BadEntry) =>
        /\ KeyIs(AfterLastSlash(config.algorithms[1]))
        /\ \A k \in DOMAIN m_algTimer : Slashes(k) = 0

\* C11 as amended: the key of an identifier is what follows its first '/'; it
\* holds a '/' exactly when the identifier has more than one.
C11_KeyAfterFirstSlash ==
    (pc # "constructed" /\ Len(config.algorithms) = 1 /\ config.algorithms[1] # BadEntry) =>
        /\ KeyIs(AfterFirstSlash(config.algorithms[1]))
        /\ \A k \in DOMAIN m_algTimer : Slashes(k) = Slashes(config.algorithms[1]) - 1

C11_Witness ==
    /\ pc = "finalized"
    /\ config.algorithms = <<IdNested>>
    /\ \E i \in 1..Len(log) : log[i].kind = "row" /\ log[i].name = <<"n", "/">>

\* the keys finalize reports on, and the timer of each
ReportedKeys == {EvtKey} \cup (DOMAIN m_algTimer \cap ExpectKeys)
TimerOf(k) == IF k = EvtKey THEN m_evtTimer ELSE m_algTimer[k]
LinesOf(k) ==
    {i \in 1..Len(log) : \/ k = EvtKey /\ log[i].kind = "summary"
                         \/ k # EvtKey /\ log[i].kind = "row" /\ log[i].name = k}

\* C12: a begin with no matching end before finalize is not counted: the
\* timer is still running, its count and the line the report shows for it are
\* those of the pairs completed before, and finalize goes on to delete the
\* running timer.
C12_OpenBeginNotCounted ==
    (Defined /\ pc \notin {"constructed", "init_failed"}) =>
        \A k \in ReportedKeys :
            (expect[k].open /\ TimerOf(k) # 0) =>
                /\ heap[TimerOf(k)].running
                /\ TimerMatches(heap[TimerOf(k)], expect[k])
                /\ \A i \in LinesOf(k) : LineMatches(log[i], expect[k])
                /\ pc \in {"fin_return", "finalized"} => heap[TimerOf(k)].alloc = "deleted"

C12_Witness ==
    /\ pc = "finalized"
    /\ last.result = "true"
    /\ \E k \in ReportedKeys :
          /\ expect[k].open
          /\ expect[k].n = 1
          /\ heap[TimerOf(k)].running
          /\ heap[TimerOf(k)].alloc = "deleted"
          /\ \E i \in LinesOf(k) : log[i].stats[1] = 1

\* C13: when finalize has ended, with or without an error while it wrote the
\* report, the event timer and every algorithm timer of the map have been
\* deleted.
C13_ReleaseDespiteRenderError ==
    pc \in {"finalized", "finalize_failed"} =>
        /\ heap[m_evtTimer].alloc # "live"
        /\ \A k \in DOMAIN m_algTimer :
              m_algTimer[k] # 0 => heap[m_algTimer[k]].alloc # "live"

KindCount(lg, kind) == Cardinality({i \in 1..Len(lg) : lg[i].kind = kind})

\* the whole report is in the log
ReportWritten(lg) ==
    /\ KindCount(lg, "banner") = 1
    /\ KindCount(lg, "header") = 1
    /\ KindCount(lg, "row") = Len(m_algName)
    /\ KindCount(lg, "summary") = 1
    /\ KindCount(lg, "closing") = 1

C14_Step ==
    LET locks == logLock # "finalize" /\ logLock' = "finalize"
        writes == /\ Len(log') = Len(log) + 1
                  /\ log'[Len(log')].kind \in ReportKinds
        releases == \E p \in 1..Len(heap) :
                        /\ p <= Len(heap')
                        /\ heap[p].alloc = "live"
                        /\ heap'[p].alloc # "live"
    IN  /\ locks => registered = {}
        /\ writes => logLock = "finalize" /\ logLock' = "finalize"
        /\ releases => logLock # "finalize" /\ ReportWritten(log)

\* C14: finalize keeps one order: the four handlers are unregistered before it
\* takes the log lock, every line of the report is written with the lock
\* held, the lock is released before a timer is deleted, and no timer is
\* deleted before the report with its statistics has been written.
C14_FixedOrder == [][C14_Step]_vars

C14_Witness ==
    /\ pc = "finalized"
    /\ Len(m_algName) = 2
    /\ ReportWritten(log)
    /\ registered = {}
    /\ logLock = "free"
    /\ \A k \in ReportedKeys : heap[TimerOf(k)].alloc = "deleted"

\* C15: from initialize to finalize the keys of m_algTimer are the names
\* recorded in m_algName and every key maps to a live timer, whatever the
\* BeginAlg and EndAlg incidents delivered.
C15_MapKeysAreRecordedNames ==
    registered = AllFour =>
        /\ DOMAIN m_algTimer = Range(m_algName)
        /\ \A k \in DOMAIN m_algTimer :
              m_algTimer[k] # 0 /\ heap[m_algTimer[k]].alloc = "live"

\* the timers a step changes
Changed == {p \in 1..Len(heap) : p <= Len(heap') /\ heap'[p] # heap[p]}

C16_Step ==
    (registered = AllFour /\ heap' # heap) =>
        /\ (/\ last'.op \in {"BeginAlg", "EndAlg"}
            /\ last'.payload.type = "alg"
            /\ last'.payload.name \in Range(m_algName))
           => /\ Changed = {m_algTimer[last'.payload.name]}
              /\ m_algTimer' = m_algTimer
        /\ last'.op \in {"BeginEvent", "EndEvent"} => Changed = {m_evtTimer}

\* C16: a BeginAlg or EndAlg incident for a configured name k changes the
\* timer of k and no other timer; a BeginEvent or EndEvent incident changes
\* the event timer and no algorithm timer.
C16_HandlersChangeOnlyTheirTimer == [][C16_Step]_vars

C16_Witness ==
    /\ pc = "active"
    /\ last = [op |-> "EndAlg", payload |-> [type |-> "alg", name |-> NameA], result |-> "true"]
    /\ DOMAIN m_algTimer = {NameA, NameB}
    /\ heap[m_algTimer[NameA]].count = 1
    /\ heap[m_algTimer[NameB]].running
    /\ heap[m_evtTimer].running

\* C17: under every interleaving of incidents delivered on host threads with
\* finalize, no call of a handler runs on a handler finalize has deleted or
\* reaches a timer finalize has deleted.
C17_NoUseAfterRelease == last.result # "UseAfterDelete"

\* C18: once finalize has deleted the timers, every timer initialize created
\* (the event timer and one per entry of the configured list) has been deleted
\* exactly once: none is still allocated and none was deleted twice.
C18_EveryTimerReleasedOnce ==
    pc \in {"fin_return", "finalized"} =>
        /\ Len(heap) = 1 + Len(config.algorithms)
        /\ \A p \in 1..Len(heap) : heap[p].alloc = "deleted"

\* C19: finalize terminates: with the lock granted fairly and a stream that
\* takes every write, a finalize that has started goes on to return true with
\* the lock free; it never waits for the lock while it holds it.
C19_FinalizeTerminates ==
    (pc = "fin_delete_handlers")
        ~> (pc = "finalized" /\ logLock = "free" /\ last.op = "finalize" /\ last.result = "true")

C19_Witness ==
    /\ pc = "finalized"
    /\ last.op = "finalize"
    /\ last.result = "true"
    /\ logLock = "free"
    /\ \E i \in 1..Len(log) : \E j \in (i + 1)..Len(log) :
          log[i].kind = "other" /\ log[j].kind = "banner"

Rendering == pc \in {"fin_lock", "fin_banner", "fin_header", "fin_rows"}

\* C20: while finalize renders the report every name of m_algName is a key of
\* m_algTimer with a live, non-null timer, so no row looks up a missing key or
\* goes through a null pointer: finalize never ends in undefined behaviour.
C20_EveryReportedNameHasTimer ==
    /\ Rendering =>
          \A i \in 1..Len(m_algName) :
              /\ m_algName[i] \in DOMAIN m_algTimer
              /\ m_algTimer[m_algName[i]] # 0
              /\ heap[m_algTimer[m_algName[i]]].alloc = "live"
    /\ ~Defined => registered = AllFour

C20_Witness ==
    /\ pc = "fin_rows"
    /\ rowIdx = 2
    /\ m_algName = <<NameA, NameB>>
    /\ expect[NameA].n = 1
    /\ expect[NameB].open
    /\ KindCount(log, "row") = 2
====
